---------------------------- MODULE Spec2Model ----------------------------
(***************************************************************************)
(* A model of the near-Earth-object database: the entity constructors of   *)
(* models.py, the linking constructor and the lookups and query of         *)
(* database.py, and the filters, create_filters and limit of filters.py.   *)
(*                                                                         *)
(* Python values are represented as follows.                               *)
(*   str       a sequence of one-character strings                         *)
(*   None      the value None below (as a str) or PyNone (as a reference)  *)
(*   float     an integer, with NaN for float('nan')                       *)
(*   datetime  a record [date, minute]                                     *)
(*   object    its index in the collection that holds it (its identity)    *)
(*   optional  a sequence of length at most one (<<>> is None)             *)
(* The attribute hazardous of an NEO, a bool that __str__ replaces by a    *)
(* str, is the pair of fields hazardous and hazardous_str: hazardous_str   *)
(* is "" while the attribute is the bool hazardous, and is the str         *)
(* otherwise.                                                              *)
(***************************************************************************)
EXTENDS Integers, Sequences, FiniteSets, TLC

VARIABLES
    pc,                 \* "new" | "ready" | "failed" | "queried" | "pure" | "done"
    neos,               \* self._neos: the NearEarthObjects, by identity
    approaches,         \* self._approaches: the CloseApproaches, by identity
    designation_dict,   \* self._designation_dict
    name_dict,          \* self._name_dict
    call,               \* the last call made and its arguments
    ret                 \* what the last call returned or raised

vars == <<pc, neos, approaches, designation_dict, name_dict, call, ret>>

---------------------------------------------------------------------------
(* Bounds of the model. *)

MaxNeos == 2
MaxApproaches == 2
MaxOptions == 2
MaxUpstream == 3
MaxLimit == 4
MaxCalls == 5

---------------------------------------------------------------------------
(* Strings. *)

None == <<"None">>
NaN == -1
NoNeo == 0

UpperChar(c) ==
    CASE c = "a" -> "A"
      [] c = "b" -> "B"
      [] OTHER -> c

LowerChar(c) ==
    CASE c = "A" -> "a"
      [] c = "B" -> "b"
      [] OTHER -> c

\* str.upper()
Upper(s) == [i \in DOMAIN s |-> UpperChar(s[i])]

\* str.capitalize(): the first character upper-cased, the rest lower-cased
Capitalize(s) == [i \in DOMAIN s |-> IF i = 1 THEN UpperChar(s[i]) ELSE LowerChar(s[i])]

---------------------------------------------------------------------------
(* Entities (models.py). *)

PyNone == [t |-> "NoneType", ref |-> 0]
StrRef == [t |-> "str", ref |-> 0]
NeoRef(i) == [t |-> "NearEarthObject", ref |-> i]

\* NearEarthObject.__init__
NearEarthObject(designation, name, diameter, hazardous) ==
    [designation |-> designation, name |-> name, diameter |-> diameter,
     hazardous |-> hazardous, hazardous_str |-> "", approaches |-> <<>>]

\* CloseApproach.__init__: self.neo = self._designation, whatever neo was passed
CloseApproach(designation, time, distance, velocity) ==
    [designation |-> designation, time |-> time, distance |-> distance,
     velocity |-> velocity, neo |-> StrRef]

\* The types of the values a caller may pass to the constructors.
PyTypes == {"str", "NoneType", "int", "float", "bool", "datetime"}

\* The assertions of NearEarthObject.__init__ on arguments of the given types:
\* designation and diameter are asserted, name and hazardous are not
NearEarthObjectAsserts(designation, name, diameter, hazardous) ==
    IF designation # "str" THEN "AssertionError"
    ELSE IF diameter # "float" THEN "AssertionError"
    ELSE ""

\* The assertions of CloseApproach.__init__ on arguments of the given types
CloseApproachAsserts(designation, time, distance, velocity) ==
    IF designation # "str" THEN "AssertionError"
    ELSE IF time # "datetime" THEN "AssertionError"
    ELSE IF distance # "float" THEN "AssertionError"
    ELSE IF velocity # "float" THEN "AssertionError"
    ELSE ""

\* NearEarthObject.fullname
fullname(neo) ==
    IF neo.name = None THEN neo.designation
    ELSE neo.designation \o <<" ", "(">> \o neo.name \o <<")">>

\* NearEarthObject.serialize
serialize_neo(neo) ==
    [designation |-> neo.designation, name |-> neo.name, diameter_km |-> neo.diameter,
     potentially_hazardous |-> <<neo.hazardous, neo.hazardous_str>>]

\* NearEarthObject.__str__: the NEO it leaves and the values its text shows
str_neo(neo) ==
    LET text == IF neo.hazardous_str = "" /\ neo.hazardous = TRUE
                THEN "IS hazardous" ELSE "is NOT hazardous"
    IN [neo |-> [neo EXCEPT !.hazardous = FALSE, !.hazardous_str = text],
        text |-> <<fullname(neo), neo.diameter, text>>]

\* NearEarthObject.__repr__: the values its text shows
repr_neo(neo) ==
    <<neo.designation, neo.name, neo.diameter, neo.hazardous, neo.hazardous_str>>

\* helpers.datetime_to_str: the date and the minute of the day, no seconds
datetime_to_str(time) == <<time.date, time.minute>>

\* CloseApproach.time_str
time_str(ca) == datetime_to_str(ca.time)

\* CloseApproach.serialize
serialize_approach(ca) ==
    [datetime_utc |-> datetime_to_str(ca.time), distance_au |-> ca.distance,
     velocity_km_s |-> ca.velocity]

\* CloseApproach.__str__: self.neo.fullname fails while neo is not an NEO
str_approach(ca, ns) ==
    IF ca.neo.t # "NearEarthObject"
    THEN [raised |-> "AttributeError", text |-> <<>>]
    ELSE [raised |-> "",
          text |-> <<time_str(ca), fullname(ns[ca.neo.ref]), ca.distance, ca.velocity>>]

\* CloseApproach.__repr__: neo is shown by its own repr
repr_approach(ca, ns) ==
    [raised |-> "",
     text |-> <<time_str(ca), ca.distance, ca.velocity,
                IF ca.neo.t = "NearEarthObject" THEN repr_neo(ns[ca.neo.ref])
                ELSE <<ca.designation>> >>]

---------------------------------------------------------------------------
(* The database constructor (database.py). *)

\* d[k] = v on a dict
Put(d, k, v) == [x \in (DOMAIN d) \cup {k} |-> IF x = k THEN v ELSE d[x]]

\* d.get(k, None) on a dict of NEOs
Get(d, k) == IF k \in DOMAIN d THEN d[k] ELSE NoNeo

EmptyDict == [x \in {} |-> NoNeo]

RECURSIVE IndexNeos(_, _, _, _)
\* the loop over self._neos, from the i-th NEO on
IndexNeos(i, ns, dd, nd) ==
    IF i > Len(ns) THEN [dd |-> dd, nd |-> nd]
    ELSE LET dd1 == IF ns[i].designation # None THEN Put(dd, ns[i].designation, i) ELSE dd
             nd1 == IF ns[i].name # None THEN Put(nd, ns[i].name, i) ELSE nd
         IN IndexNeos(i + 1, ns, dd1, nd1)

RECURSIVE LinkApproaches(_, _, _, _, _)
\* the loop over self._approaches, from the j-th approach on; neo is the loop
\* variable the loop over self._neos left behind
LinkApproaches(j, neo, dd, ns, cas) ==
    IF j > Len(cas) THEN [dd |-> dd, neos |-> ns, approaches |-> cas]
    ELSE LET dd1 == Put(dd, cas[j].designation, neo)
             cas1 == IF cas[j].neo # PyNone THEN [cas EXCEPT ![j].neo = NeoRef(neo)] ELSE cas
             ns1 == [ns EXCEPT ![neo].approaches = Append(@, j)]
         IN LinkApproaches(j + 1, neo, dd1, ns1, cas1)

\* NEODatabase.__init__
Construct ==
    /\ pc = "new"
    /\ call' = [op |-> "NEODatabase"]
    /\ LET idx == IndexNeos(1, neos, EmptyDict, EmptyDict)
       IN IF Len(neos) = 0 /\ Len(approaches) > 0
          THEN \* neo was never bound
               /\ pc' = "failed"
               /\ ret' = [raised |-> "UnboundLocalError", value |-> NoNeo]
               /\ UNCHANGED <<neos, approaches, designation_dict, name_dict>>
          ELSE LET lk == LinkApproaches(1, Len(neos), idx.dd, neos, approaches)
               IN /\ pc' = "ready"
                  /\ ret' = [raised |-> "", value |-> NoNeo]
                  /\ designation_dict' = lk.dd
                  /\ name_dict' = idx.nd
                  /\ neos' = lk.neos
                  /\ approaches' = lk.approaches

---------------------------------------------------------------------------
(* Lookups (database.py). *)

\* NEODatabase.get_neo_by_designation
get_neo_by_designation(dd, designation) ==
    IF designation = None
    THEN [raised |-> "AttributeError", value |-> NoNeo]
    ELSE [raised |-> "", value |-> Get(dd, Upper(designation))]

\* NEODatabase.get_neo_by_name
get_neo_by_name(nd, name) ==
    IF name = None
    THEN [raised |-> "AttributeError", value |-> NoNeo]
    ELSE [raised |-> "", value |-> Get(nd, Capitalize(name))]

---------------------------------------------------------------------------
(* Filters (filters.py). *)

\* operator.eq, operator.le, operator.ge on floats (a comparison with nan is False)
\* and on dates
Compare(op, x, y) ==
    CASE op = "eq" -> x # NaN /\ y # NaN /\ x = y
      [] op = "le" -> x # NaN /\ y # NaN /\ x <= y
      [] op = "ge" -> x # NaN /\ y # NaN /\ x >= y

\* bool is a subclass of int: False is 0 and True is 1
BoolInt(b) == IF b THEN 1 ELSE 0

\* AttributeFilter.__init__
AttributeFilter(kind, op, value) == [kind |-> kind, op |-> op, value |-> value]

\* datetime.date(): the calendar date of a datetime
date(time) == time.date

\* AttributeFilter.__call__ with the get of each subclass: self.op(self.get(approach), self.value)
CallFilter(f, ca, ns) ==
    CASE f.kind = "DateFilter" ->
            [raised |-> "", value |-> Compare(f.op, date(ca.time), f.value)]
      [] f.kind = "DistanceFilter" ->
            [raised |-> "", value |-> Compare(f.op, ca.distance, f.value)]
      [] f.kind = "VelocityFilter" ->
            [raised |-> "", value |-> Compare(f.op, ca.velocity, f.value)]
      [] f.kind = "DiameterFilter" ->
            IF ca.neo.t = "NearEarthObject"
            THEN [raised |-> "", value |-> Compare(f.op, ns[ca.neo.ref].diameter, f.value)]
            ELSE [raised |-> "AttributeError", value |-> FALSE]
      [] f.kind = "HazardousFilter" ->
            IF ca.neo.t # "NearEarthObject"
            THEN [raised |-> "AttributeError", value |-> FALSE]
            ELSE IF ns[ca.neo.ref].hazardous_str = ""
            THEN [raised |-> "",
                  value |-> Compare(f.op, BoolInt(ns[ca.neo.ref].hazardous), BoolInt(f.value))]
            ELSE IF f.op = "eq"
            THEN \* a str equals no bool
                 [raised |-> "", value |-> FALSE]
            ELSE \* a str and a bool are not ordered
                 [raised |-> "TypeError", value |-> FALSE]
      [] OTHER ->
            \* AttributeFilter.get, not overridden
            [raised |-> "UnsupportedCriterionError", value |-> FALSE]

\* the filter an option contributes: none when the option is None
FilterOf(opt, kind, op) ==
    IF Len(opt) = 0 THEN <<>> ELSE <<AttributeFilter(kind, op, opt[1])>>

\* create_filters with the hazardous option tested for truth instead of against None
create_filters_truthy(o) ==
    FilterOf(o.start_date, "DateFilter", "ge")
    \o FilterOf(o.date, "DateFilter", "eq")
    \o FilterOf(o.end_date, "DateFilter", "le")
    \o FilterOf(o.distance_min, "DistanceFilter", "ge")
    \o FilterOf(o.distance_max, "DistanceFilter", "le")
    \o FilterOf(o.velocity_min, "VelocityFilter", "ge")
    \o FilterOf(o.velocity_max, "VelocityFilter", "le")
    \o FilterOf(o.diameter_min, "DiameterFilter", "ge")
    \o FilterOf(o.diameter_max, "DiameterFilter", "le")
    \o (IF o.hazardous = <<TRUE>> THEN FilterOf(o.hazardous, "HazardousFilter", "eq") ELSE <<>>)

\* create_filters
create_filters(o) ==
    FilterOf(o.start_date, "DateFilter", "ge")
    \o FilterOf(o.date, "DateFilter", "eq")
    \o FilterOf(o.end_date, "DateFilter", "le")
    \o FilterOf(o.distance_min, "DistanceFilter", "ge")
    \o FilterOf(o.distance_max, "DistanceFilter", "le")
    \o FilterOf(o.velocity_min, "VelocityFilter", "ge")
    \o FilterOf(o.velocity_max, "VelocityFilter", "le")
    \o FilterOf(o.diameter_min, "DiameterFilter", "ge")
    \o FilterOf(o.diameter_max, "DiameterFilter", "le")
    \o FilterOf(o.hazardous, "HazardousFilter", "eq")

Min(a, b) == IF a <= b THEN a ELSE b

\* itertools.islice(iterator, stop), drained
islice(s, stop) ==
    IF Len(stop) = 0 THEN [raised |-> "", items |-> s]
    ELSE IF stop[1] < 0 THEN [raised |-> "ValueError", items |-> <<>>]
    ELSE [raised |-> "", items |-> SubSeq(s, 1, Min(stop[1], Len(s)))]

\* limit with n = 0 passed on to islice as a stop of 0
limit_zero_stops(s, n) ==
    IF Len(n) = 0 THEN islice(s, <<>>) ELSE islice(s, n)

\* limit(iterator, n), drained
limit(s, n) ==
    IF Len(n) = 0 \/ n[1] = 0 THEN islice(s, <<>>) ELSE islice(s, n)

---------------------------------------------------------------------------
(* The query (database.py). *)

RECURSIVE FalseInMap_calls_every_filter(_, _, _, _)
\* a search that calls every filter, also those after one that returned False
FalseInMap_calls_every_filter(k, filters, ca, ns) ==
    IF k > Len(filters) THEN [raised |-> "", value |-> FALSE]
    ELSE LET r == CallFilter(filters[k], ca, ns)
             rest == FalseInMap_calls_every_filter(k + 1, filters, ca, ns)
         IN IF r.raised # "" THEN r
            ELSE IF rest.raised # "" THEN rest
            ELSE [raised |-> "", value |-> (r.value = FALSE \/ rest.value)]

RECURSIVE FalseInMap(_, _, _, _)
\* False in map(lambda x: x(approach), filters), from the k-th filter on: the
\* search stops at the first filter that returns False or raises
FalseInMap(k, filters, ca, ns) ==
    IF k > Len(filters) THEN [raised |-> "", value |-> FALSE]
    ELSE LET r == CallFilter(filters[k], ca, ns)
         IN IF r.raised # "" THEN r
            ELSE IF r.value = FALSE THEN [raised |-> "", value |-> TRUE]
            ELSE FalseInMap(k + 1, filters, ca, ns)

RECURSIVE query(_, _, _, _, _)
\* NEODatabase.query, drained from the j-th approach on; out is what it has yielded
query(j, filters, cas, ns, out) ==
    IF j > Len(cas) THEN [raised |-> "", items |-> out]
    ELSE LET flag == FalseInMap(1, filters, cas[j], ns)
         IN IF flag.raised # "" THEN [raised |-> flag.raised, items |-> out]
            ELSE query(j + 1, filters, cas, ns,
                       IF flag.value = TRUE THEN Append(out, j) ELSE out)

---------------------------------------------------------------------------
(* Inputs. *)

SeqsUpTo(S, n) == UNION {[1..k -> S] : k \in 0..n}

Reverse(s) == [i \in DOMAIN s |-> s[Len(s) + 1 - i]]

Designations == {<<"1">>, <<"a">>, <<"A">>}
\* an NEO's name is None or a non-empty string
Names == {None, <<"A", "b">>, <<"a", "B">>}
LookupKeys == Designations \cup Names \cup {<<>>, <<"a", "b">>}

Midnight(d) == [date |-> d, minute |-> 0]
Times == {Midnight(1), [date |-> 1, minute |-> 1], Midnight(2)}

\* The NEOs and approaches of the lookup runs: every designation and name, the
\* constructors' defaults for the rest.
LookupNeos == {NearEarthObject(d, n, NaN, FALSE) : d \in Designations, n \in Names}
LookupApproaches == {CloseApproach(d, Midnight(1), 0, 0) : d \in Designations}

\* The NEOs and approaches of the query runs: one designation, every value of the
\* attributes the filters read.
QueryNeos == {NearEarthObject(<<"1">>, None, dm, hz) : dm \in {NaN, 1}, hz \in BOOLEAN}
QueryApproaches == {CloseApproach(<<"1">>, t, ds, 1) : t \in Times, ds \in {0, 1, 2}}

DateOption == {<<>>, <<1>>, <<2>>}
FloatOption == {<<>>, <<1>>, <<2>>}
BoolOption == {<<>>, <<TRUE>>, <<FALSE>>}

\* Every combination of the options of create_filters.
AllOptions ==
    [date : DateOption, start_date : DateOption, end_date : DateOption,
     distance_min : FloatOption, distance_max : FloatOption,
     velocity_min : FloatOption, velocity_max : FloatOption,
     diameter_min : FloatOption, diameter_max : FloatOption,
     hazardous : BoolOption]

\* create_filters(): every option left at its default, None
NoOptions ==
    [date |-> <<>>, start_date |-> <<>>, end_date |-> <<>>,
     distance_min |-> <<>>, distance_max |-> <<>>,
     velocity_min |-> <<>>, velocity_max |-> <<>>,
     diameter_min |-> <<>>, diameter_max |-> <<>>,
     hazardous |-> <<>>]

NumericOptions ==
    {"date", "start_date", "end_date", "distance_min", "distance_max",
     "velocity_min", "velocity_max", "diameter_min", "diameter_max"}

RECURSIVE OptionsUpTo(_)
\* the combinations with at most k options given
OptionsUpTo(k) ==
    IF k = 0 THEN {NoOptions}
    ELSE LET less == OptionsUpTo(k - 1)
         IN less
            \cup {[o EXCEPT ![nm] = <<v>>] : o \in less, nm \in NumericOptions, v \in {1, 2}}
            \cup {[o EXCEPT !.hazardous = <<v>>] : o \in less, v \in BOOLEAN}

QueryOptions == OptionsUpTo(MaxOptions)

Upstreams == SeqsUpTo(1..MaxUpstream, MaxUpstream)
Limits == {<<>>} \cup {<<n>> : n \in (-1)..MaxLimit}

NoCall == [op |-> "none"]
NoResult == [raised |-> "", value |-> NoNeo]

---------------------------------------------------------------------------
(* Linking and lookup: a database is built and looked up by designation and name. *)

Init ==
    /\ pc = "new"
    /\ neos \in SeqsUpTo(LookupNeos, MaxNeos)
    /\ approaches \in SeqsUpTo(LookupApproaches, MaxApproaches)
    /\ designation_dict = EmptyDict
    /\ name_dict = EmptyDict
    /\ call = NoCall
    /\ ret = NoResult

GetNeoByDesignation ==
    /\ pc = "ready"
    /\ \E q \in LookupKeys :
          /\ call' = [op |-> "get_neo_by_designation", arg |-> q]
          /\ ret' = get_neo_by_designation(designation_dict, q)
    /\ UNCHANGED <<pc, neos, approaches, designation_dict, name_dict>>

GetNeoByName ==
    /\ pc = "ready"
    /\ \E q \in LookupKeys :
          /\ call' = [op |-> "get_neo_by_name", arg |-> q]
          /\ ret' = get_neo_by_name(name_dict, q)
    /\ UNCHANGED <<pc, neos, approaches, designation_dict, name_dict>>

Next == Construct \/ GetNeoByDesignation \/ GetNeoByName

Spec == Init /\ [][Next]_vars

---------------------------------------------------------------------------
(* Query: a database is built and queried with the filters of create_filters. *)

InitQuery ==
    /\ pc = "new"
    /\ neos \in SeqsUpTo(QueryNeos, MaxNeos)
    /\ approaches \in SeqsUpTo(QueryApproaches, MaxApproaches)
    /\ designation_dict = EmptyDict
    /\ name_dict = EmptyDict
    /\ call = NoCall
    /\ ret = NoResult

\* list(db.query(filters)), the filters in the order create_filters gives or reversed
Query ==
    /\ pc = "ready"
    /\ pc' = "queried"
    /\ \E o \in QueryOptions, rev \in BOOLEAN :
          LET fs == create_filters(o)
              filters == IF rev THEN Reverse(fs) ELSE fs
          IN /\ call' = [op |-> "query", opts |-> o, filters |-> filters]
             /\ ret' = query(1, filters, approaches, neos, <<>>)
    /\ UNCHANGED <<neos, approaches, designation_dict, name_dict>>

NextQuery == Construct \/ Query

SpecQuery == InitQuery /\ [][NextQuery]_vars

---------------------------------------------------------------------------
(* The pure functions of filters.py, each called once on arguments drawn *)
(* at the start.                                                         *)

InitLimit ==
    /\ pc = "pure"
    /\ neos = <<>>
    /\ approaches = <<>>
    /\ designation_dict = EmptyDict
    /\ name_dict = EmptyDict
    /\ call \in [op : {"limit"}, s : Upstreams, n : Limits]
    /\ ret = NoResult

\* list(limit(iter(s), n))
Limit ==
    /\ pc = "pure"
    /\ pc' = "done"
    /\ ret' = limit(call.s, call.n)
    /\ UNCHANGED <<neos, approaches, designation_dict, name_dict, call>>

NextLimit == Limit

SpecLimit == InitLimit /\ [][NextLimit]_vars

InitFilters ==
    /\ pc = "pure"
    /\ neos = <<>>
    /\ approaches = <<>>
    /\ designation_dict = EmptyDict
    /\ name_dict = EmptyDict
    /\ call \in [op : {"create_filters"}, opts : AllOptions]
    /\ ret = NoResult

\* create_filters(**opts)
CreateFilters ==
    /\ pc = "pure"
    /\ pc' = "done"
    /\ ret' = [raised |-> "", filters |-> create_filters(call.opts)]
    /\ UNCHANGED <<neos, approaches, designation_dict, name_dict, call>>

NextFilters == CreateFilters

SpecFilters == InitFilters /\ [][NextFilters]_vars

---------------------------------------------------------------------------
(* Properties of linking and lookup, under Spec. *)

\* the approaches, by identity, in the order of the approach collection
ApproachIndices == [j \in 1..Len(approaches) |-> j]

DistinctDesignations ==
    \A i, j \in DOMAIN neos : i # j => neos[i].designation # neos[j].designation

DistinctNames ==
    \A i, j \in DOMAIN neos :
        (i # j /\ neos[i].name # None) => neos[i].name # neos[j].name

\* C1: in a database built from NEOs with pairwise distinct designations,
\* get_neo_by_designation(N.designation) returns N itself, for every NEO N.
C1_DesignationLookupReturnsNeo ==
    (pc = "ready" /\ call.op = "get_neo_by_designation" /\ DistinctDesignations)
    => \A i \in DOMAIN neos :
          neos[i].designation = call.arg => ret = [raised |-> "", value |-> i]

\* C2: after construction every NEO's approaches list holds exactly the
\* approaches with the NEO's designation, each once, in the order of the
\* approach collection (and is empty when there is none).
C2_ApproachesLinkedToTheirNeo ==
    pc = "ready"
    => \A i \in DOMAIN neos :
          neos[i].approaches
            = SelectSeq(ApproachIndices,
                        LAMBDA j : approaches[j].designation = neos[i].designation)

\* C3: after construction every approach whose designation is that of an NEO of
\* the collection has its neo set to an NEO with that designation.
C3_ApproachNeoHasItsDesignation ==
    pc = "ready"
    => \A j \in DOMAIN approaches :
          (\E i \in DOMAIN neos : neos[i].designation = approaches[j].designation)
          => /\ approaches[j].neo.t = "NearEarthObject"
             /\ neos[approaches[j].neo.ref].designation = approaches[j].designation

\* C6: in a database built from NEOs with pairwise distinct names,
\* get_neo_by_name(N.name) returns N for every NEO N that has a name, and no
\* call returns an NEO that has no name.
C6_NameLookupReturnsNeo ==
    (pc = "ready" /\ call.op = "get_neo_by_name" /\ DistinctNames)
    => /\ \A i \in DOMAIN neos :
             (neos[i].name # None /\ neos[i].name = call.arg)
             => ret = [raised |-> "", value |-> i]
       /\ (ret.value # NoNeo => neos[ret.value].name # None)

\* C13: construction tolerates an approach whose designation is no NEO's
\* designation, also when there is no NEO at all: the constructor does not
\* raise, the approach's neo stays unresolved (no NEO), the approach is in no
\* NEO's approaches list, and it is still in the approach collection.
C13_UnmatchedApproachTolerated ==
    (call.op = "NEODatabase"
     /\ \E j \in DOMAIN approaches :
            \A i \in DOMAIN neos : neos[i].designation # approaches[j].designation)
    => /\ pc = "ready"
       /\ ret.raised = ""
       /\ \A j \in DOMAIN approaches :
             (\A i \in DOMAIN neos : neos[i].designation # approaches[j].designation)
             => /\ approaches[j].neo.t # "NearEarthObject"
                /\ \A i \in DOMAIN neos :
                      \A k \in DOMAIN neos[i].approaches : neos[i].approaches[k] # j

\* C14: the lookups match exactly, letter case included: a lookup returns an
\* NEO only if the query string equals the NEO's designation (name), and a
\* query that differs from every stored key gives None.
C14_LookupMatchesExactly ==
    /\ (pc = "ready" /\ call.op = "get_neo_by_designation" /\ call.arg # None)
       => /\ (ret.value # NoNeo => neos[ret.value].designation = call.arg)
          /\ (call.arg \notin DOMAIN designation_dict => ret.value = NoNeo)
    /\ (pc = "ready" /\ call.op = "get_neo_by_name" /\ call.arg # None)
       => /\ (ret.value # NoNeo => neos[ret.value].name = call.arg)
          /\ (call.arg \notin DOMAIN name_dict => ret.value = NoNeo)

\* C17: after construction the keys of the designation map are exactly the
\* designations of the NEOs, each key mapped to an NEO with that designation,
\* and the keys of the name map are exactly the names of the named NEOs, never
\* None or the empty string; approaches add no key.
C17_MapsHoldExactlyTheNeos ==
    pc = "ready"
    => /\ DOMAIN designation_dict = {neos[i].designation : i \in DOMAIN neos}
       /\ \A k \in DOMAIN designation_dict : neos[designation_dict[k]].designation = k
       /\ DOMAIN name_dict = {neos[i].name : i \in DOMAIN neos} \ {None}
       /\ \A k \in DOMAIN name_dict : neos[name_dict[k]].name = k
       /\ None \notin DOMAIN name_dict
       /\ <<>> \notin DOMAIN name_dict

\* C9: the two lookups never raise: a query string that is no NEO's designation
\* (name) gives None, and get_neo_by_name of None or of the empty string gives None.
C9_LookupsNeverRaise ==
    /\ (pc = "ready" /\ call.op = "get_neo_by_designation" /\ call.arg # None)
       => /\ ret.raised = ""
          /\ ((\A i \in DOMAIN neos : neos[i].designation # call.arg) => ret.value = NoNeo)
    /\ (pc = "ready" /\ call.op = "get_neo_by_name")
       => /\ ret.raised = ""
          /\ ((\A i \in DOMAIN neos : neos[i].name # call.arg) => ret.value = NoNeo)
          /\ (call.arg \in {None, <<>>} => ret.value = NoNeo)

---------------------------------------------------------------------------
(* Properties of the query, under SpecQuery. *)

\* every filter of the call returns True on the j-th approach
EveryFilterTrue(j) ==
    \A k \in DOMAIN call.filters :
        CallFilter(call.filters[k], approaches[j], neos) = [raised |-> "", value |-> TRUE]

\* C4: query(F) yields exactly the approaches on which every filter of F returns
\* True, each once, in the order of the approach collection, whatever the order
\* of the filters in F.
C4_QueryYieldsApproachesPassingEveryFilter ==
    (pc = "queried" /\ call.op = "query")
    => ret = [raised |-> "", items |-> SelectSeq(ApproachIndices, EveryFilterTrue)]

\* C5: query() with no filters yields every approach once, in the order of the
\* approach collection.
C5_QueryWithoutFiltersYieldsAll ==
    (pc = "queried" /\ call.op = "query" /\ Len(call.filters) = 0)
    => ret = [raised |-> "", items |-> ApproachIndices]

\* C11: query(create_filters(hazardous=False)) yields exactly the approaches
\* whose NEO has hazardous == False, and query(create_filters()) yields every
\* approach.
C11_NotHazardousSelectsNotHazardous ==
    /\ (pc = "queried" /\ call.op = "query"
        /\ call.opts = [NoOptions EXCEPT !.hazardous = <<FALSE>>])
       => ret = [raised |-> "",
                 items |-> SelectSeq(ApproachIndices,
                              LAMBDA j : /\ approaches[j].neo.t = "NearEarthObject"
                                         /\ neos[approaches[j].neo.ref].hazardous = FALSE)]
    /\ (pc = "queried" /\ call.op = "query" /\ call.opts = NoOptions)
       => ret = [raised |-> "", items |-> ApproachIndices]

\* the call gave distance_min and distance_max and nothing else
OnlyDistanceBounds(o) ==
    /\ Len(o.distance_min) = 1
    /\ Len(o.distance_max) = 1
    /\ [o EXCEPT !.distance_min = <<>>, !.distance_max = <<>>] = NoOptions

\* C10: query(create_filters(distance_min=a, distance_max=b)) yields exactly the
\* approaches with a <= distance <= b, both bounds included.
C10_DistanceBoundsInclusive ==
    (pc = "queried" /\ call.op = "query" /\ OnlyDistanceBounds(call.opts))
    => ret = [raised |-> "",
              items |-> SelectSeq(ApproachIndices,
                           LAMBDA j : /\ approaches[j].distance # NaN
                                      /\ call.opts.distance_min[1] <= approaches[j].distance
                                      /\ approaches[j].distance <= call.opts.distance_max[1])]

---------------------------------------------------------------------------
(* Properties of limit, under SpecLimit. *)

\* C7: for n > 0, limit(s, n) yields the first min(n, len(s)) items of s in
\* order; for n = 0 or n = None it yields the whole of s.
C7_LimitYieldsPrefix ==
    (pc = "done" /\ call.op = "limit")
    => /\ (Len(call.n) = 1 /\ call.n[1] > 0)
          => /\ ret.raised = ""
             /\ Len(ret.items) = Min(call.n[1], Len(call.s))
             /\ \A k \in 1..Len(ret.items) : ret.items[k] = call.s[k]
       /\ (Len(call.n) = 0 \/ call.n[1] = 0)
          => ret = [raised |-> "", items |-> call.s]

\* limit has cut a sequence short, and has passed a sequence through for n = 0
C7_Witness ==
    /\ pc = "done"
    /\ call.op = "limit"
    /\ \/ /\ Len(call.n) = 1
          /\ call.n[1] > 0
          /\ call.n[1] < Len(call.s)
          /\ Len(ret.items) = call.n[1]
       \/ /\ call.n = <<0>>
          /\ Len(call.s) > 0
          /\ ret.items = call.s

---------------------------------------------------------------------------
(* Properties of create_filters, under SpecFilters. *)

\* the number of options that are not None
NumOptions(o) ==
    Len(o.date) + Len(o.start_date) + Len(o.end_date)
    + Len(o.distance_min) + Len(o.distance_max)
    + Len(o.velocity_min) + Len(o.velocity_max)
    + Len(o.diameter_min) + Len(o.diameter_max) + Len(o.hazardous)

\* the filter each option stands for
OptionTable ==
    {<<"date", "DateFilter", "eq">>,
     <<"start_date", "DateFilter", "ge">>,
     <<"end_date", "DateFilter", "le">>,
     <<"distance_min", "DistanceFilter", "ge">>,
     <<"distance_max", "DistanceFilter", "le">>,
     <<"velocity_min", "VelocityFilter", "ge">>,
     <<"velocity_max", "VelocityFilter", "le">>,
     <<"diameter_min", "DiameterFilter", "ge">>,
     <<"diameter_max", "DiameterFilter", "le">>,
     <<"hazardous", "HazardousFilter", "eq">>}

\* C8: create_filters returns one filter for each option that is not None, of
\* the option's kind and comparator and with the option's value, and no filter
\* for an option that is None; hazardous=False gives a filter.
C8_OneFilterPerGivenOption ==
    (pc = "done" /\ call.op = "create_filters")
    => /\ ret.raised = ""
       /\ Len(ret.filters) = NumOptions(call.opts)
       /\ \A e \in OptionTable :
             LET given == call.opts[e[1]]
                 found == {k \in DOMAIN ret.filters :
                              ret.filters[k].kind = e[2] /\ ret.filters[k].op = e[3]}
             IN IF Len(given) = 0 THEN found = {}
                ELSE /\ Cardinality(found) = 1
                     /\ \A k \in found : ret.filters[k].value = given[1]

\* create_filters(hazardous=False, distance_min=1) has returned its two filters
C8_Witness ==
    /\ pc = "done"
    /\ call.op = "create_filters"
    /\ call.opts = [NoOptions EXCEPT !.hazardous = <<FALSE>>, !.distance_min = <<1>>]
    /\ ret.filters = <<AttributeFilter("DistanceFilter", "ge", 1),
                       AttributeFilter("HazardousFilter", "eq", FALSE)>>

---------------------------------------------------------------------------
(* The entity constructors, each called once on arguments of types drawn at *)
(* the start.                                                               *)

InitEntities ==
    /\ pc = "pure"
    /\ neos = <<>>
    /\ approaches = <<>>
    /\ designation_dict = EmptyDict
    /\ name_dict = EmptyDict
    /\ \/ call \in [op : {"NearEarthObject"}, designation : PyTypes, name : PyTypes,
                    diameter : PyTypes, hazardous : PyTypes]
       \/ call \in [op : {"CloseApproach"}, designation : PyTypes, time : PyTypes,
                    distance : PyTypes, velocity : PyTypes]
    /\ ret = NoResult

\* NearEarthObject(designation, name, diameter, hazardous)
NewNearEarthObject ==
    /\ pc = "pure"
    /\ call.op = "NearEarthObject"
    /\ pc' = "done"
    /\ LET e == NearEarthObjectAsserts(call.designation, call.name, call.diameter,
                                       call.hazardous)
       IN ret' = [raised |-> e, built |-> (e = "")]
    /\ UNCHANGED <<neos, approaches, designation_dict, name_dict, call>>

\* CloseApproach(_designation, time, distance, velocity)
NewCloseApproach ==
    /\ pc = "pure"
    /\ call.op = "CloseApproach"
    /\ pc' = "done"
    /\ LET e == CloseApproachAsserts(call.designation, call.time, call.distance,
                                     call.velocity)
       IN ret' = [raised |-> e, built |-> (e = "")]
    /\ UNCHANGED <<neos, approaches, designation_dict, name_dict, call>>

NextEntities == NewNearEarthObject \/ NewCloseApproach

SpecEntities == InitEntities /\ [][NextEntities]_vars

\* C16: the constructors refuse a wrong-typed field: NearEarthObject fails, and
\* returns no entity, when designation is not a str, name is neither a str nor
\* None, diameter is not a real number or hazardous is not a bool; CloseApproach
\* fails when designation is not a str or time, distance or velocity has the
\* wrong type.
C16_ConstructorsValidateEveryField ==
    /\ (pc = "done" /\ call.op = "NearEarthObject"
        /\ (\/ call.designation # "str"
            \/ call.name \notin {"str", "NoneType"}
            \/ call.diameter \notin {"float", "int"}
            \/ call.hazardous # "bool"))
       => (ret.raised # "" /\ ~ret.built)
    /\ (pc = "done" /\ call.op = "CloseApproach"
        /\ (\/ call.designation # "str"
            \/ call.time # "datetime"
            \/ call.distance \notin {"float", "int"}
            \/ call.velocity \notin {"float", "int"}))
       => (ret.raised # "" /\ ~ret.built)

---------------------------------------------------------------------------
(* Reading: a database is built and then read in any order, any number of  *)
(* times.                                                                  *)

ReadNeos == {NearEarthObject(<<"1">>, n, NaN, hz) : n \in {None, <<"A", "b">>}, hz \in BOOLEAN}
ReadApproaches == {CloseApproach(<<"1">>, Midnight(1), 1, 1)}

InitRead ==
    /\ pc = "new"
    /\ neos \in SeqsUpTo(ReadNeos, MaxNeos)
    /\ approaches \in SeqsUpTo(ReadApproaches, MaxApproaches)
    /\ designation_dict = EmptyDict
    /\ name_dict = EmptyDict
    /\ call = NoCall
    /\ ret = NoResult

\* str(neo)
StrNeo ==
    /\ pc = "ready"
    /\ \E i \in DOMAIN neos :
          /\ call' = [op |-> "str_neo", arg |-> i]
          /\ ret' = [raised |-> "", text |-> str_neo(neos[i]).text]
          /\ neos' = [neos EXCEPT ![i] = str_neo(neos[i]).neo]
    /\ UNCHANGED <<pc, approaches, designation_dict, name_dict>>

\* repr(neo)
ReprNeo ==
    /\ pc = "ready"
    /\ \E i \in DOMAIN neos :
          /\ call' = [op |-> "repr_neo", arg |-> i]
          /\ ret' = [raised |-> "", text |-> repr_neo(neos[i])]
    /\ UNCHANGED <<pc, neos, approaches, designation_dict, name_dict>>

\* neo.fullname
FullName ==
    /\ pc = "ready"
    /\ \E i \in DOMAIN neos :
          /\ call' = [op |-> "fullname", arg |-> i]
          /\ ret' = [raised |-> "", text |-> fullname(neos[i])]
    /\ UNCHANGED <<pc, neos, approaches, designation_dict, name_dict>>

\* neo.serialize()
SerializeNeo ==
    /\ pc = "ready"
    /\ \E i \in DOMAIN neos :
          /\ call' = [op |-> "serialize_neo", arg |-> i]
          /\ ret' = [raised |-> "", dict |-> serialize_neo(neos[i])]
    /\ UNCHANGED <<pc, neos, approaches, designation_dict, name_dict>>

\* str(approach)
StrApproach ==
    /\ pc = "ready"
    /\ \E j \in DOMAIN approaches :
          /\ call' = [op |-> "str_approach", arg |-> j]
          /\ ret' = str_approach(approaches[j], neos)
    /\ UNCHANGED <<pc, neos, approaches, designation_dict, name_dict>>

\* repr(approach)
ReprApproach ==
    /\ pc = "ready"
    /\ \E j \in DOMAIN approaches :
          /\ call' = [op |-> "repr_approach", arg |-> j]
          /\ ret' = repr_approach(approaches[j], neos)
    /\ UNCHANGED <<pc, neos, approaches, designation_dict, name_dict>>

\* approach.serialize()
SerializeApproach ==
    /\ pc = "ready"
    /\ \E j \in DOMAIN approaches :
          /\ call' = [op |-> "serialize_approach", arg |-> j]
          /\ ret' = [raised |-> "", dict |-> serialize_approach(approaches[j])]
    /\ UNCHANGED <<pc, neos, approaches, designation_dict, name_dict>>

\* list(limit(db.query(create_filters(hazardous=h)), n))
QueryHazardous ==
    /\ pc = "ready"
    /\ \E h \in BOOLEAN, n \in {<<>>, <<1>>} :
          LET o == [NoOptions EXCEPT !.hazardous = <<h>>]
              q == query(1, create_filters(o), approaches, neos, <<>>)
          IN /\ call' = [op |-> "limit_query", opts |-> o, n |-> n]
             /\ ret' = IF q.raised # "" THEN q ELSE limit(q.items, n)
    /\ UNCHANGED <<pc, neos, approaches, designation_dict, name_dict>>

NextRead ==
    \/ Construct
    \/ GetNeoByDesignation
    \/ GetNeoByName
    \/ QueryHazardous
    \/ StrNeo
    \/ ReprNeo
    \/ FullName
    \/ SerializeNeo
    \/ StrApproach
    \/ ReprApproach
    \/ SerializeApproach

SpecRead == InitRead /\ [][NextRead]_vars

\* the answers of HazardousFilter(operator.eq, h) on every approach, for both h
HazardousAnswers ==
    [j \in DOMAIN approaches |->
        [h \in BOOLEAN |->
            CallFilter(AttributeFilter("HazardousFilter", "eq", h), approaches[j], neos)]]

\* C18: once the database is built, no read (a lookup, a query and its limit,
\* fullname, serialize, str or repr of an NEO or an approach) changes the two
\* maps, the approach collection, any NEO's fields or any approach's neo, and
\* HazardousFilter answers the same on every approach before and after.
C18_ReadsChangeNothing ==
    [][pc = "ready"
       => /\ neos' = neos
          /\ approaches' = approaches
          /\ designation_dict' = designation_dict
          /\ name_dict' = name_dict
          /\ HazardousAnswers' = HazardousAnswers]_vars

---------------------------------------------------------------------------
(* A query whose filter set holds a base AttributeFilter.                  *)

\* AttributeFilter(operator.eq, 0): get is not overridden
BaseFilter == AttributeFilter("AttributeFilter", "eq", 0)

BaseFilterNeos == {NearEarthObject(<<"1">>, None, NaN, hz) : hz \in BOOLEAN}
BaseFilterApproaches == {CloseApproach(<<"1">>, Midnight(1), ds, 1) : ds \in {0, 1, 2}}
BaseFilterOptions ==
    {[NoOptions EXCEPT !.distance_min = a, !.distance_max = b, !.hazardous = h] :
        a \in {<<>>, <<1>>}, b \in {<<>>, <<1>>}, h \in BoolOption}

\* the sequence s with x placed at position p
InsertAt(s, p, x) == SubSeq(s, 1, p - 1) \o <<x>> \o SubSeq(s, p, Len(s))

InitBaseFilter ==
    /\ pc = "new"
    /\ neos \in SeqsUpTo(BaseFilterNeos, MaxNeos)
    /\ approaches \in SeqsUpTo(BaseFilterApproaches, MaxApproaches)
    /\ designation_dict = EmptyDict
    /\ name_dict = EmptyDict
    /\ call = NoCall
    /\ ret = NoResult

\* list(db.query(filters)), a base AttributeFilter at position p among the
\* filters create_filters gives
QueryBaseFilter ==
    /\ pc = "ready"
    /\ pc' = "queried"
    /\ \E o \in BaseFilterOptions :
          \E p \in 1..(Len(create_filters(o)) + 1) :
             LET filters == InsertAt(create_filters(o), p, BaseFilter)
             IN /\ call' = [op |-> "query", opts |-> o, filters |-> filters, position |-> p]
                /\ ret' = query(1, filters, approaches, neos, <<>>)
    /\ UNCHANGED <<neos, approaches, designation_dict, name_dict>>

NextBaseFilter == Construct \/ QueryBaseFilter

SpecBaseFilter == InitBaseFilter /\ [][NextBaseFilter]_vars

\* calling a base AttributeFilter on any approach raises UnsupportedCriterionError
BaseFilterRaises ==
    \A j \in DOMAIN approaches :
        CallFilter(BaseFilter, approaches[j], neos).raised = "UnsupportedCriterionError"

\* approach j passes every filter placed before position p
ReachesPosition(j, p, filters) ==
    \A k \in 1..(p - 1) :
        LET r == CallFilter(filters[k], approaches[j], neos)
        IN r.raised = "" /\ r.value = TRUE

\* C12 as stated: calling a base AttributeFilter on any approach raises
\* UnsupportedCriterionError, and a query over a non-empty approach collection
\* whose filter set holds such a filter at any position raises it when its
\* results are pulled.
C12_BaseFilterSurfacesAtAnyPosition ==
    /\ BaseFilterRaises
    /\ (pc = "queried" /\ approaches # <<>>)
          => ret.raised = "UnsupportedCriterionError"

\* C12 amended: calling a base AttributeFilter on any approach raises
\* UnsupportedCriterionError, and a query whose filter set holds such a filter
\* raises it when its results are pulled exactly when some approach passes
\* every filter placed before the base filter (so always when the base filter
\* is first and the collection is non-empty); otherwise the base filter is
\* never called and the query completes normally.
C12_BaseFilterSurfacesWhenReached ==
    /\ BaseFilterRaises
    /\ pc = "queried"
          => (ret.raised = "UnsupportedCriterionError"
                <=> \E j \in DOMAIN approaches :
                        ReachesPosition(j, call.position, call.filters))

\* a base filter placed after two filters is reached and its error surfaces,
\* with an approach before it that did not reach it
C12_Witness ==
    /\ pc = "queried"
    /\ call.position = 3
    /\ Len(approaches) = 2
    /\ ~ReachesPosition(1, call.position, call.filters)
    /\ ReachesPosition(2, call.position, call.filters)
    /\ ret.raised = "UnsupportedCriterionError"

---------------------------------------------------------------------------
(* Iteration, one next() at a time: limit(upstream, n) is an islice over   *)
(* the upstream iterator; the upstream is the generator db.query(filters)  *)
(* or an endless counter.  The iterator's state is the record              *)
(*   items    what next() has returned so far                              *)
(*   pulled   how many items islice has taken from the upstream            *)
(*   scanned  how many approaches the query generator has taken            *)
(*   calls    how many times the caller has called next()                  *)
(*   last     how the latest next() ended: "item", "stop" or "raise"       *)
(*   done     the upstream or the islice is exhausted                      *)

\* limit: the stop it hands to islice, None for n in [0, None]
limit_stop(n) == IF n = <<>> \/ n = <<0>> THEN <<>> ELSE n

RECURSIVE query_next(_, _, _, _)
\* next() of the generator NEODatabase.query that has taken scanned approaches:
\* it resumes the for loop until a yield, the end of the collection or an error
query_next(scanned, filters, cas, ns) ==
    IF scanned >= Len(cas) THEN [raised |-> "", scanned |-> scanned, item |-> <<>>]
    ELSE LET flag == FalseInMap(1, filters, cas[scanned + 1], ns)
         IN IF flag.raised # ""
            THEN [raised |-> flag.raised, scanned |-> scanned + 1, item |-> <<>>]
            ELSE IF flag.value = TRUE
            THEN [raised |-> "", scanned |-> scanned + 1, item |-> <<scanned + 1>>]
            ELSE query_next(scanned + 1, filters, cas, ns)

\* next() of the upstream of the islice
upstream_next(c, r, cas, ns) ==
    IF c.upstream = "query" THEN query_next(r.scanned, c.filters, cas, ns)
    ELSE [raised |-> "", scanned |-> r.scanned, item |-> <<r.pulled + 1>>]

\* an islice that takes the next upstream item before it looks at its stop
islice_next_lookahead(c, r, cas, ns) ==
    LET called == [r EXCEPT !.calls = @ + 1]
        u == upstream_next(c, r, cas, ns)
    IN IF r.done THEN [called EXCEPT !.last = "stop"]
       ELSE IF u.raised # ""
       THEN [called EXCEPT !.raised = u.raised, !.scanned = u.scanned,
                           !.last = "raise", !.done = TRUE]
       ELSE IF u.item = <<>> \/ (c.stop # <<>> /\ r.pulled >= c.stop[1])
       THEN [called EXCEPT !.scanned = u.scanned, !.last = "stop", !.done = TRUE,
                           !.pulled = IF u.item = <<>> THEN @ ELSE @ + 1]
       ELSE [called EXCEPT !.scanned = u.scanned, !.pulled = @ + 1,
                           !.items = Append(@, u.item[1]), !.last = "item"]

\* next() of islice(upstream, stop): once stop items are taken it stops
\* without asking the upstream
islice_next(c, r, cas, ns) ==
    LET called == [r EXCEPT !.calls = @ + 1]
        u == upstream_next(c, r, cas, ns)
    IN IF r.done THEN [called EXCEPT !.last = "stop"]
       ELSE IF c.stop # <<>> /\ r.pulled >= c.stop[1]
       THEN [called EXCEPT !.last = "stop", !.done = TRUE]
       ELSE IF u.raised # ""
       THEN [called EXCEPT !.raised = u.raised, !.scanned = u.scanned,
                           !.last = "raise", !.done = TRUE]
       ELSE IF u.item = <<>>
       THEN [called EXCEPT !.scanned = u.scanned, !.last = "stop", !.done = TRUE]
       ELSE [called EXCEPT !.scanned = u.scanned, !.pulled = @ + 1,
                           !.items = Append(@, u.item[1]), !.last = "item"]

IterNeos == {NearEarthObject(<<"1">>, None, NaN, hz) : hz \in BOOLEAN}
IterApproaches == {CloseApproach(<<"1">>, Midnight(1), ds, 1) : ds \in {0, 1, 2}}
IterOptions ==
    {[NoOptions EXCEPT !.distance_min = a, !.distance_max = b] :
        a \in {<<>>, <<1>>}, b \in {<<>>, <<1>>}}
IterLimits == {<<>>} \cup {<<n>> : n \in 0..MaxLimit}

NewIterator ==
    [raised |-> "", items |-> <<>>, pulled |-> 0, scanned |-> 0, calls |-> 0,
     last |-> "none", done |-> FALSE]

InitIter ==
    /\ pc = "new"
    /\ neos \in SeqsUpTo(IterNeos, MaxNeos)
    /\ approaches \in SeqsUpTo(IterApproaches, MaxUpstream)
    /\ designation_dict = EmptyDict
    /\ name_dict = EmptyDict
    /\ call = NoCall
    /\ ret = NoResult

\* it = limit(db.query(create_filters(...)), n): nothing runs until next(it)
LimitQuery ==
    /\ pc = "ready"
    /\ pc' = "iterating"
    /\ \E o \in IterOptions, n \in IterLimits :
          call' = [op |-> "limit", upstream |-> "query", filters |-> create_filters(o),
                   n |-> n, stop |-> limit_stop(n)]
    /\ ret' = NewIterator
    /\ UNCHANGED <<neos, approaches, designation_dict, name_dict>>

\* it = limit(itertools.count(1), n), an upstream that never ends
LimitCount ==
    /\ pc = "ready"
    /\ pc' = "iterating"
    /\ \E n \in IterLimits :
          call' = [op |-> "limit", upstream |-> "count", filters |-> <<>>,
                   n |-> n, stop |-> limit_stop(n)]
    /\ ret' = NewIterator
    /\ UNCHANGED <<neos, approaches, designation_dict, name_dict>>

\* next(it), also after it has stopped
NextItem ==
    /\ pc = "iterating"
    /\ ret.calls < MaxCalls
    /\ ret' = islice_next(call, ret, approaches, neos)
    /\ UNCHANGED <<pc, neos, approaches, designation_dict, name_dict, call>>

NextIter == Construct \/ LimitQuery \/ LimitCount \/ NextItem

SpecIter == InitIter /\ [][NextIter]_vars

\* C15: limit(s, n) with n > 0 never takes more than n items from the
\* upstream, however many times next() is called, also on an upstream that
\* never ends; over a query, right after the k-th result is produced the
\* generator has scanned up to the approach that became the k-th result and
\* no further, and once the n-th result is produced it never scans again.
C15_LimitPullsAtMostN ==
    (pc = "iterating" /\ call.n # <<>> /\ call.n # <<0>>)
       => /\ ret.pulled <= call.n[1]
          /\ Len(ret.items) = ret.pulled
          /\ (call.upstream = "query" /\ ret.last = "item")
                => ret.scanned = ret.items[Len(ret.items)]
          /\ (call.upstream = "query" /\ Len(ret.items) = call.n[1])
                => ret.scanned = ret.items[call.n[1]]

\* next() was called again after the n-th result of a query, with approaches
\* left unscanned
C15_Witness ==
    /\ pc = "iterating"
    /\ call.upstream = "query"
    /\ call.n # <<>> /\ call.n # <<0>>
    /\ Len(ret.items) = call.n[1]
    /\ ret.calls > call.n[1] + 1
    /\ ret.scanned < Len(approaches)

=============================================================================
